---- MODULE Spec2Model ----
(***************************************************************************)
(* Timing-and-composition pipeline of the reels python-worker:             *)
(*   audio/__init__.py      tts                                            *)
(*   audio/tts.py           generate_audio_for_speaker                     *)
(*   audio/processing.py    combine_to_wav_with_timings                    *)
(*   audio/alignment.py     align_with_whisperx (repair of missing bounds) *)
(*   video/utils.py         get_speaker_at_time                            *)
(*   video/captions.py      chunk_words, create_caption_clip(s)            *)
(*   video/effects.py       add_landing_effect                             *)
(*   video/title.py         format_title_text, create_title_clip           *)
(*   video/overlays.py      create_overlay_clips                           *)
(*   video/assembler.py     assemble_video                                 *)
(*   main.py, app.py        main, generate_video (from their tts call on)  *)
(* All times are integers in milliseconds (the code holds float seconds).  *)
(* Each component has its own specification: SpecTts, SpecLookup,          *)
(* SpecAlign, SpecChunk (chunk_words), SpecCaptions, SpecRerun (two calls  *)
(* of chunk_words), SpecCaptionsOrdered (time-ordered words), SpecVideo    *)
(* (assemble_video), SpecRun (the callers), SpecLanding (scale_fn) and     *)
(* SpecTitle (format_title_text).                                          *)
(***************************************************************************)
EXTENDS Integers, Sequences, FiniteSets, TLC

VARIABLES
    pc,                   \* position of the running operation
    \* ---- audio/__init__.py tts + audio/processing.py
    script,               \* tts argument: sequence of speaker names, one per dialogue line
    audio_segments,       \* tts local: one synthesized blob per accepted line
    speakers,             \* tts local: normalized speaker per accepted line
    timings,              \* combine_to_wav_with_timings local / result
    combined,             \* combine_to_wav_with_timings local: the pieces appended so far
    current_time,         \* combine_to_wav_with_timings local
    i,                    \* combine_to_wav_with_timings loop index (enumerate)
    temp_wav_exists,      \* the NamedTemporaryFile(delete=False) of tts is on disk
    \* ---- video/utils.py get_speaker_at_time
    speaker_timings,      \* argument of get_speaker_at_time / chunk_words
    time,                 \* argument of get_speaker_at_time
    result,               \* value returned by get_speaker_at_time
    \* ---- audio/alignment.py
    segments,             \* aligned["segments"]: sequence of sequences of word dicts
    word_alignments,      \* result of align_with_whisperx / argument of chunk_words
    \* ---- video/captions.py
    oracle,               \* answers check_text_wraps has given so far, by <<text, font_size>>
    widx,                 \* number of word_alignments entries the chunk_words loop has consumed
    chunks,               \* chunk_words local / result
    current_chunk_words,
    chunk_start_time,
    chunk_end_time,
    current_chunk_speaker,
    text_clips_with_timing, \* create_caption_clips local: (clip, chunk.start_time) pairs
    text_clips,           \* result of create_caption_clips
    call,                 \* which of two successive chunk_words calls is running
    first_chunks,         \* what the first of them returned
    \* ---- video/assembler.py, video/title.py, video/overlays.py
    peter_png_exists,     \* os.path.exists(<pngs_folder>/Peter_Griffin.png)
    stewie_png_exists,    \* os.path.exists(<pngs_folder>/Stewie_Griffin.png)
    peter_img,            \* <<w, h>> of the Peter image file
    stewie_img,           \* <<w, h>> of the Stewie image file
    audio_duration,       \* audio_clip.duration
    title_clip,           \* assemble_video local
    overlay_clips,        \* assemble_video local: result of create_overlay_clips
    raised,               \* the exception that ended the operation, or "none"
    message,              \* the message of that exception
    video_written,        \* write_videofile has produced the output file
    \* ---- main.py main, app.py generate_video
    caller,               \* "main" or "app": the handler that is running
    temp_audio_exists,    \* the NamedTemporaryFile(delete=False) of main is on disk
    temp_dir_exists,      \* the TemporaryDirectory of generate_video is on disk
    response,             \* what generate_video has returned
    \* ---- video/effects.py add_landing_effect: one rendered frame
    effect_dur,           \* landing_dur of the effect
    frame_t,              \* clip-local time of the frame, the t handed to scale_fn
    frame_scale,          \* what scale_fn returned for it, in thousandths
    \* ---- video/title.py format_title_text
    title,                \* argument: the title, a sequence of characters
    title_words,          \* local: title.upper().split()
    built_text,           \* local: the text built so far
    rendered              \* per word handled, what its trial render showed

ttsVars == <<script, audio_segments, speakers, timings, combined, current_time, i,
             temp_wav_exists>>
lookupVars == <<time, result>>
alignVars == <<segments>>
captionVars == <<oracle, widx, chunks, current_chunk_words, chunk_start_time,
                 chunk_end_time, current_chunk_speaker, text_clips_with_timing,
                 text_clips>>
rerunVars == <<call, first_chunks>>
videoVars == <<peter_png_exists, stewie_png_exists, peter_img, stewie_img,
               audio_duration, title_clip, overlay_clips, raised, message,
               video_written>>
runVars == <<caller, temp_audio_exists, temp_dir_exists, response>>
extVars == <<rerunVars, videoVars, runVars>>
landingVars == <<effect_dur, frame_t, frame_scale>>
titleVars == <<title, title_words, built_text, rendered>>
fxVars == <<landingVars, titleVars>>
vars == <<pc, ttsVars, lookupVars, alignVars, fxVars, extVars, captionVars, speaker_timings,
          word_alignments>>

\* Python None where a speaker name is expected.
None == "None"
\* Python None where a time is expected (times are never negative).
NoneT == -1

Min(a, b) == IF a <= b THEN a ELSE b

RECURSIVE SumMs(_)
SumMs(s) == IF s = <<>> THEN 0 ELSE s[1].ms + SumMs(Tail(s))

----------------------------------------------------------------------------
(* Bounds of the model *)
MaxLines == 3        \* dialogue lines in a script
MaxTimings == 2      \* entries of an arbitrary speaker-timing list (SpecLookup)
MaxRawWords == 3     \* word entries in the aligner's raw output (SpecAlign)
MaxWords == 3        \* entries of the word-alignment list given to chunk_words (SpecChunk)
MaxCaptionWords == 2 \* the same, given to create_caption_clips (SpecCaptions)

(* Program constants *)
PAUSE_MS == 200

\* Speaker names a script may carry, and the decoded lengths (ms) a synthesized
\* line may have (len(seg) of pydub).
RawSpeakers == {"Peter", "peter", "STEWIE", "bob"}
SegDurations == {0, 1500, 2000, 3000}

----------------------------------------------------------------------------
(* audio/tts.py *)

\* str.lower() on the speaker names of RawSpeakers
lower(s) ==
    CASE s = "Peter" -> "peter"
      [] s = "STEWIE" -> "stewie"
      [] OTHER -> s

VOICE_CONFIGS == {"peter", "stewie"}

\* generate_audio_from_text: raises ValueError for an unknown voice, else the
\* blob returned by the provider (ms is its decoded length).
generate_audio_from_text(ms, voice_name) ==
    IF voice_name \notin VOICE_CONFIGS
    THEN [raised |-> TRUE]
    ELSE [raised |-> FALSE, audio |-> [ms |-> ms]]

generate_audio_for_speaker_exact(ms, speaker) ==
    IF speaker = "peter"
    THEN [raised |-> FALSE, audio |-> [ms |-> ms], speaker |-> "peter"]
    ELSE IF speaker = "stewie"
    THEN [raised |-> FALSE, audio |-> [ms |-> ms], speaker |-> "stewie"]
    ELSE [raised |-> TRUE]
\* generate_audio_for_speaker: (audio, normalized speaker) or ValueError.
generate_audio_for_speaker(ms, speaker) ==
    LET speaker_lower == lower(speaker) IN
    IF speaker_lower = "peter"
    THEN LET r == generate_audio_from_text(ms, "peter") IN
         IF r.raised THEN r ELSE [raised |-> FALSE, audio |-> r.audio, speaker |-> "peter"]
    ELSE IF speaker_lower = "stewie"
    THEN LET r == generate_audio_from_text(ms, "stewie") IN
         IF r.raised THEN r ELSE [raised |-> FALSE, audio |-> r.audio, speaker |-> "stewie"]
    ELSE [raised |-> TRUE]

(* audio/processing.py *)

\* segment_from_mp3_bytes: the decoded, normalized segment; only its length matters.
segment_from_mp3_bytes(mp3_bytes) == [kind |-> "seg", ms |-> mp3_bytes.ms]

\* AudioSegment.silent(duration=PAUSE_MS)
Silent == [kind |-> "pause", ms |-> PAUSE_MS]

ZipLenShort == Min(Len(audio_segments), Len(speakers)) - 1
\* zip(audio_segments_mp3, speakers) stops at the shorter list
ZipLen == Min(Len(audio_segments), Len(speakers))

PauseAfterAlways(idx) == TRUE
\* "if i != len(audio_segments_mp3) - 1": a pause follows segment i (0-based)
PauseAfter(idx) == idx # Len(audio_segments) - 1

CursorAfterNoPause(start_time, end_time, idx) == end_time
CursorAfterRewind(start_time, end_time, idx) == start_time
CursorAfterStale(start_time, end_time, idx) ==
    IF PauseAfter(idx) THEN start_time + PAUSE_MS ELSE start_time
\* "current_time = end_time" and, before a pause, "current_time += pause"
CursorAfter(start_time, end_time, idx) ==
    IF PauseAfter(idx) THEN end_time + PAUSE_MS ELSE end_time

----------------------------------------------------------------------------
(* Idle values of the variables a specification does not use *)
IdleTts ==
    /\ script = <<>> /\ audio_segments = <<>> /\ speakers = <<>>
    /\ timings = <<>> /\ combined = <<>> /\ current_time = 0 /\ i = 0
    /\ temp_wav_exists = FALSE
IdleLookup == time = 0 /\ result = None
IdleAlign == segments = <<>>
IdleRerun == call = 1 /\ first_chunks = <<>>
IdleVideo ==
    /\ peter_png_exists = TRUE /\ stewie_png_exists = TRUE
    /\ peter_img = <<0, 0>> /\ stewie_img = <<0, 0>>
    /\ audio_duration = 0 /\ title_clip = <<>> /\ overlay_clips = <<>>
    /\ raised = "none" /\ message = <<>> /\ video_written = FALSE
IdleRun ==
    /\ caller = "none" /\ temp_audio_exists = FALSE /\ temp_dir_exists = FALSE
    /\ response = "none"
IdleLanding == effect_dur = 0 /\ frame_t = 0 /\ frame_scale = 0
IdleTitle == title = <<>> /\ title_words = <<>> /\ built_text = <<>> /\ rendered = <<>>
IdleFx == IdleLanding /\ IdleTitle
IdleExt == IdleRerun /\ IdleVideo /\ IdleRun /\ IdleFx
IdleCaptions ==
    /\ oracle = <<>> /\ widx = 0 /\ chunks = <<>> /\ current_chunk_words = <<>>
    /\ chunk_start_time = NoneT /\ chunk_end_time = NoneT
    /\ current_chunk_speaker = None
    /\ text_clips_with_timing = <<>> /\ text_clips = <<>>

----------------------------------------------------------------------------
(* SpecTts: audio/__init__.py tts, calling combine_to_wav_with_timings *)

InitTts ==
    /\ pc = "tts_loop"
    /\ \E n \in 0..MaxLines : script \in [1..n -> RawSpeakers]
    /\ audio_segments = <<>> /\ speakers = <<>>
    /\ timings = <<>> /\ combined = <<>> /\ current_time = 0 /\ i = 0
    /\ temp_wav_exists = FALSE
    /\ IdleLookup /\ IdleAlign /\ IdleCaptions /\ IdleExt
    /\ speaker_timings = <<>> /\ word_alignments = <<>>

\* one iteration of "for speaker, text in script" that synthesizes the line
TtsLine ==
    /\ pc = "tts_loop"
    /\ Len(audio_segments) < Len(script)
    /\ \E ms \in SegDurations :
         LET r == generate_audio_for_speaker(ms, script[Len(audio_segments) + 1]) IN
         /\ ~r.raised
         /\ audio_segments' = Append(audio_segments, r.audio)
         /\ speakers' = Append(speakers, r.speaker)
    /\ UNCHANGED <<pc, script, timings, combined, current_time, i, temp_wav_exists,
                   lookupVars, alignVars, fxVars, extVars, captionVars, speaker_timings, word_alignments>>

\* the iteration in which generate_audio_for_speaker raises ValueError
TtsRaise ==
    /\ pc = "tts_loop"
    /\ Len(audio_segments) < Len(script)
    /\ generate_audio_for_speaker(0, script[Len(audio_segments) + 1]).raised
    /\ pc' = "tts_raised"
    /\ UNCHANGED <<ttsVars, lookupVars, alignVars, fxVars, extVars, captionVars, speaker_timings,
                   word_alignments>>

\* the loop is over: combine_to_wav_with_timings is entered (lines 71-73)
CombineEnter ==
    /\ pc = "tts_loop"
    /\ Len(audio_segments) = Len(script)
    /\ combined' = <<>>
    /\ timings' = <<>>
    /\ current_time' = 0
    /\ i' = 0
    /\ pc' = "combine"
    /\ UNCHANGED <<script, audio_segments, speakers, temp_wav_exists,
                   lookupVars, alignVars, fxVars, extVars, captionVars, speaker_timings, word_alignments>>

\* one iteration of the loop of combine_to_wav_with_timings (lines 75-91)
CombineStep ==
    /\ pc = "combine"
    /\ i < ZipLen
    /\ LET seg == segment_from_mp3_bytes(audio_segments[i + 1])
           speaker == speakers[i + 1]
           seg_duration == seg.ms
           start_time == current_time
           end_time == current_time + seg_duration
       IN /\ timings' = Append(timings, <<speaker, start_time, end_time>>)
          /\ combined' = IF PauseAfter(i) THEN combined \o <<seg, Silent>>
                                          ELSE Append(combined, seg)
          /\ current_time' = CursorAfter(start_time, end_time, i)
    /\ i' = i + 1
    /\ UNCHANGED <<pc, script, audio_segments, speakers, temp_wav_exists,
                   lookupVars, alignVars, fxVars, extVars, captionVars, speaker_timings, word_alignments>>

\* combine_to_wav_with_timings returns (wav, timings); tts writes the WAV to a
\* temporary file (lines 93-95, __init__.py 47-49)
CombineReturn ==
    /\ pc = "combine"
    /\ i = ZipLen
    /\ temp_wav_exists' = TRUE
    /\ pc' = "tts_align"
    /\ UNCHANGED <<script, audio_segments, speakers, timings, combined, current_time, i,
                   lookupVars, alignVars, fxVars, extVars, captionVars, speaker_timings, word_alignments>>

\* align_with_whisperx returns; the finally clause unlinks the file; tts returns
TtsAlignReturns ==
    /\ pc = "tts_align"
    /\ temp_wav_exists' = FALSE
    /\ pc' = "tts_returned"
    /\ UNCHANGED <<script, audio_segments, speakers, timings, combined, current_time, i,
                   lookupVars, alignVars, fxVars, extVars, captionVars, speaker_timings, word_alignments>>

\* align_with_whisperx raises; the finally clause unlinks the file; tts raises
TtsAlignRaises ==
    /\ pc = "tts_align"
    /\ temp_wav_exists' = FALSE
    /\ pc' = "tts_align_raised"
    /\ UNCHANGED <<script, audio_segments, speakers, timings, combined, current_time, i,
                   lookupVars, alignVars, fxVars, extVars, captionVars, speaker_timings, word_alignments>>

NextTts ==
    \/ TtsLine
    \/ TtsRaise
    \/ CombineEnter
    \/ CombineStep
    \/ CombineReturn
    \/ TtsAlignReturns
    \/ TtsAlignRaises

SpecTts == InitTts /\ [][NextTts]_vars

\* combine_to_wav_with_timings has returned
Combined == pc \in {"tts_align", "tts_returned", "tts_align_raised"}

----------------------------------------------------------------------------
(* Properties of combine_to_wav_with_timings, as called by tts *)

NumPauses == Cardinality({k \in 1..Len(combined) : combined[k].kind = "pause"})
SegPieces == SelectSeq(combined, LAMBDA x : x.kind = "seg")

\* C4: in the returned timing list every entry has start <= end and every
\* entry starts no earlier than the previous entry ends.
C4_TimelineMonotone ==
    Combined =>
        /\ \A k \in 1..Len(timings) : timings[k][2] <= timings[k][3]
        /\ \A k \in 1..(Len(timings) - 1) : timings[k + 1][2] >= timings[k][3]

\* three segments were combined, one of them of length zero
C4_Witness ==
    /\ Combined /\ Len(timings) = 3
    /\ \E k \in 1..3 : timings[k][2] = timings[k][3]
    /\ timings[1][3] > 0 /\ timings[2][2] > timings[1][3]

\* C5: N >= 1 segments get exactly N-1 pauses of PAUSE_MS, none after the last
\* segment; the audio lasts sum(durations) + (N-1) * PAUSE_MS, which is the end
\* of the last timing entry; N = 0 gives an empty audio and an empty list.
C5_PauseCount ==
    Combined =>
        LET N == Len(audio_segments) IN
        IF N = 0
        THEN combined = <<>> /\ timings = <<>>
        ELSE /\ NumPauses = N - 1
             /\ \A k \in 1..Len(combined) :
                    combined[k].kind = "pause" => combined[k].ms = 200
             /\ combined[Len(combined)].kind = "seg"
             /\ SumMs(combined) = SumMs(audio_segments) + (N - 1) * 200
             /\ SumMs(combined) = timings[Len(timings)][3]

\* three segments of 2.0 s, 3.0 s and 1.5 s were combined with two pauses
C5_Witness ==
    /\ Combined /\ Len(audio_segments) = 3 /\ NumPauses = 2
    /\ SumMs(combined) = 6900 /\ timings[3][3] = 6900

\* C6: the timing list has one entry per input segment, in input order, entry k
\* carrying the speaker supplied for segment k, and every segment appended to
\* the audio has its entry.
C6_OneEntryPerSegment ==
    Combined =>
        /\ Len(timings) = Len(audio_segments)
        /\ Len(timings) = Len(script)
        /\ \A k \in 1..Len(timings) :
              /\ timings[k][1] = speakers[k]
              /\ timings[k][1] = lower(script[k])
        /\ Len(SegPieces) = Len(timings)
        /\ \A k \in 1..Len(SegPieces) :
              /\ SegPieces[k].ms = audio_segments[k].ms
              /\ SegPieces[k].ms = timings[k][3] - timings[k][2]

\* two lines by different speakers were combined
C6_Witness ==
    /\ Combined /\ Len(audio_segments) = 2
    /\ timings[1][1] = "peter" /\ timings[2][1] = "stewie"
    /\ script[1] = "Peter"

\* C18: the first entry starts at 0, each entry ends at its start plus its own
\* segment's duration, and each following entry starts exactly PAUSE_MS (0.2 s)
\* after the previous entry's end; durations 2.0, 3.0, 1.5 s for speakers
\* A, B, A give (A, 0.0, 2.0), (B, 2.2, 5.2), (A, 5.4, 6.9).
C18_ExactTimeline ==
    Combined =>
        /\ Len(timings) >= 1 => timings[1][2] = 0
        /\ \A k \in 1..Len(timings) :
              timings[k][3] = timings[k][2] + audio_segments[k].ms
        /\ \A k \in 1..(Len(timings) - 1) :
              timings[k + 1][2] = timings[k][3] + 200
        /\ ( /\ Len(audio_segments) = 3
             /\ <<audio_segments[1].ms, audio_segments[2].ms, audio_segments[3].ms>>
                    = <<2000, 3000, 1500>>
             /\ <<speakers[1], speakers[2], speakers[3]>> = <<"peter", "stewie", "peter">> )
           => timings = << <<"peter", 0, 2000>>, <<"stewie", 2200, 5200>>,
                           <<"peter", 5400, 6900>> >>

\* the lines of A, B, A with 2.0 s, 3.0 s and 1.5 s of audio were combined
C18_Witness ==
    /\ pc = "tts_returned" /\ Len(timings) = 3
    /\ audio_segments = << [ms |-> 2000], [ms |-> 3000], [ms |-> 1500] >>
    /\ speakers = <<"peter", "stewie", "peter">>
    /\ timings[2][2] = 2200 /\ timings[3][3] = 6900

----------------------------------------------------------------------------
(* Properties of tts (SpecTts) *)

\* the speaker name spells peter or stewie in some mix of cases
SpellsPeter(s) == s \in {"peter", "Peter", "PETER"}
SpellsStewie(s) == s \in {"stewie", "Stewie", "STEWIE"}
KnownSpeaker(s) == SpellsPeter(s) \/ SpellsStewie(s)

\* C16: tts raises ValueError at the first dialogue line whose speaker is not
\* peter or stewie, compared case-insensitively; then the lines before it have
\* been synthesized and no timeline assembly, no alignment and no return takes
\* place; a script holding such a line never gets past the synthesis loop.  The
\* label recorded for an accepted line is the lower-case "peter" or "stewie".
C16_RaiseAtFirstUnknownSpeaker ==
    /\ pc = "tts_raised" =>
          LET k == Len(audio_segments) + 1 IN
          /\ k <= Len(script)
          /\ ~KnownSpeaker(script[k])
          /\ \A j \in 1..(k - 1) : KnownSpeaker(script[j])
          /\ Len(speakers) = k - 1
          /\ timings = <<>> /\ combined = <<>> /\ i = 0
          /\ ~temp_wav_exists
    /\ (\E k \in 1..Len(script) : ~KnownSpeaker(script[k]))
          => pc \in {"tts_loop", "tts_raised"}
    /\ Len(speakers) = Len(audio_segments)
    /\ \A k \in 1..Len(speakers) :
          /\ SpellsPeter(script[k]) => speakers[k] = "peter"
          /\ SpellsStewie(script[k]) => speakers[k] = "stewie"
          /\ speakers[k] \in {"peter", "stewie"}
    /\ \A k \in 1..Len(timings) : timings[k][1] \in {"peter", "stewie"}

\* the third line is bob's: two lines were synthesized, then ValueError
C16_Witness ==
    /\ pc = "tts_raised" /\ Len(script) = 3
    /\ script[1] = "Peter" /\ script[2] = "STEWIE" /\ script[3] = "bob"
    /\ speakers = <<"peter", "stewie">> /\ Len(audio_segments) = 2

----------------------------------------------------------------------------
(* SpecLookup: video/utils.py get_speaker_at_time on an arbitrary timing list *)

get_speaker_at_time_closed(st, t) ==
    LET M == {k \in 1..Len(st) : st[k][2] <= t /\ t <= st[k][3]} IN
    IF M = {} THEN None ELSE st[CHOOSE k \in M : \A j \in M : k <= j][1]
\* "for speaker, start, end in speaker_timings: if start <= time < end: return
\* speaker" and "return None" after the loop
RECURSIVE get_speaker_at_time(_, _)
get_speaker_at_time(st, t) ==
    IF st = <<>>
    THEN None
    ELSE LET speaker == st[1][1]
             start == st[1][2]
             end == st[1][3]
         IN IF start <= t /\ t < end
            THEN speaker
            ELSE get_speaker_at_time(Tail(st), t)

\* query times and interval bounds of the arbitrary timing lists
LookupTimes == 0..3
TimingEntries == {<<s, a, b>> : s \in {"peter", "stewie"}, a \in LookupTimes, b \in LookupTimes}

InitLookup ==
    /\ pc = "lookup"
    /\ \E n \in 0..MaxTimings : speaker_timings \in [1..n -> TimingEntries]
    /\ time \in LookupTimes
    /\ result = None
    /\ IdleTts /\ IdleAlign /\ IdleCaptions /\ IdleExt
    /\ word_alignments = <<>>

Lookup ==
    /\ pc = "lookup"
    /\ result' = get_speaker_at_time(speaker_timings, time)
    /\ pc' = "lookup_done"
    /\ UNCHANGED <<ttsVars, time, alignVars, fxVars, extVars, captionVars, speaker_timings, word_alignments>>

NextLookup == Lookup

SpecLookup == InitLookup /\ [][NextLookup]_vars

\* entry k's half-open interval contains t
Contains(k, t) == speaker_timings[k][2] <= t /\ t < speaker_timings[k][3]
Matches == {k \in 1..Len(speaker_timings) : Contains(k, time)}

\* C9: the lookup returns the speaker of the first entry, in list order, with
\* start <= t < end, and None when there is none; so an entry that is the first
\* to contain its own start answers at t = start, and at t = end, or inside a
\* pause, an entry that no other entry covers gives None.
C9_FirstHalfOpenMatch ==
    pc = "lookup_done" =>
        /\ Matches = {} => result = None
        /\ Matches # {} =>
              \E k \in Matches : /\ \A j \in Matches : k <= j
                                  /\ result = speaker_timings[k][1]
        /\ \A k \in 1..Len(speaker_timings) :
              /\ ( /\ time = speaker_timings[k][2]
                    /\ speaker_timings[k][2] < speaker_timings[k][3]
                    /\ \A j \in 1..(k - 1) : ~Contains(j, time) )
                  => result = speaker_timings[k][1]
              /\ ( /\ time = speaker_timings[k][3]
                    /\ \A j \in 1..Len(speaker_timings) : j # k => ~Contains(j, time) )
                  => result = None

\* two overlapping entries of different speakers both contain t, and the
\* first one's speaker is returned
C9_Witness ==
    /\ pc = "lookup_done" /\ Len(speaker_timings) = 2
    /\ Contains(1, time) /\ Contains(2, time)
    /\ speaker_timings[1][1] = "stewie" /\ speaker_timings[2][1] = "peter"
    /\ result = "stewie"

----------------------------------------------------------------------------
(* SpecAlign: audio/alignment.py, the extraction loop of align_with_whisperx *)

\* "+ 0.01" of line 69, in ms
EPSILON_MS == 10

\* Python truthiness of an Optional[float]: None and 0.0 are false
Truthy(v) == v # NoneT /\ v # 0

EmitsEither(start, end) == Truthy(start) \/ Truthy(end)
\* "if start and end:" (line 82)
Emits(start, end) == Truthy(start) /\ Truthy(end)

HasKey(w, key) == key \in DOMAIN w

\* lines 65-71: the start recorded for words[j] (j is 1-based here)
DetermineStart(words, j) ==
    LET w == words[j] IN
    IF HasKey(w, "start")
    THEN w.start
    ELSE IF j > 1 /\ HasKey(words[j - 1], "end")
         THEN words[j - 1].end + EPSILON_MS
         ELSE NoneT

\* lines 74-80: the end recorded for words[j]
DetermineEnd(words, j) ==
    LET w == words[j] IN
    IF HasKey(w, "end")
    THEN w.end
    ELSE IF j < Len(words) /\ HasKey(words[j + 1], "start")
         THEN words[j + 1].start
         ELSE NoneT

\* the inner loop "for j, w in enumerate(words)" from position j on
RECURSIVE ExtractWords(_, _)
ExtractWords(words, j) ==
    IF j > Len(words)
    THEN <<>>
    ELSE LET start == DetermineStart(words, j)
             end == DetermineEnd(words, j)
         IN (IF Emits(start, end) THEN <<<<words[j].word, start, end>>>> ELSE <<>>)
            \o ExtractWords(words, j + 1)

\* the outer loop "for i, segment in enumerate(segments)"
RECURSIVE ExtractSegments(_)
ExtractSegments(segs) ==
    IF segs = <<>>
    THEN <<>>
    ELSE ExtractWords(segs[1], 1) \o ExtractSegments(Tail(segs))

\* The aligner's raw output: the k-th word entry of the whole output carries the
\* word WordNames[k], and its "start" and "end" keys may each be absent.
WordNames == <<"w1", "w2", "w3", "w4", "w5", "w6">>
RawStarts == {0, 10, 30}
RawEnds == {0, 10, 30}
RawShapes ==
    [k : {"se"}, s : RawStarts, e : RawEnds] \cup [k : {"s"}, s : RawStarts, e : {0}]
        \cup [k : {"e"}, s : {0}, e : RawEnds] \cup [k : {"none"}, s : {0}, e : {0}]
RawWord(word, sh) ==
    CASE sh.k = "se" -> [word |-> word, start |-> sh.s, end |-> sh.e]
      [] sh.k = "s" -> [word |-> word, start |-> sh.s]
      [] sh.k = "e" -> [word |-> word, end |-> sh.e]
      [] OTHER -> [word |-> word]

\* flat[from..] cut into segments after the positions of cuts
RECURSIVE SplitAt(_, _, _)
SplitAt(flat, cuts, from) ==
    IF from > Len(flat)
    THEN <<>>
    ELSE LET later == {c \in cuts : c >= from}
             stop == IF later = {} THEN Len(flat)
                     ELSE CHOOSE c \in later : \A d \in later : c <= d
         IN <<SubSeq(flat, from, stop)>> \o SplitAt(flat, cuts, stop + 1)

\* a raw output of n word entries with the shapes shs, cut into segments at cuts
RawOutput(n, shs, cuts) ==
    SplitAt([k \in 1..n |-> RawWord(WordNames[k], shs[k])], cuts, 1)

InitAlign ==
    /\ pc = "align"
    /\ \E n \in 0..MaxRawWords :
         \E shs \in [1..n -> RawShapes] :
           \E cuts \in SUBSET (1..(n - 1)) :
             segments = RawOutput(n, shs, cuts)
    /\ word_alignments = <<>>
    /\ IdleTts /\ IdleLookup /\ IdleCaptions /\ IdleExt
    /\ speaker_timings = <<>>

\* lines 59-90: the words are extracted from aligned["segments"] and returned
Align ==
    /\ pc = "align"
    /\ word_alignments' = ExtractSegments(segments)
    /\ pc' = "aligned"
    /\ UNCHANGED <<ttsVars, lookupVars, alignVars, fxVars, extVars, captionVars, speaker_timings>>

NextAlign == Align

SpecAlign == InitAlign /\ [][NextAlign]_vars

\* the raw word entries in the aligner's order, across segments
RECURSIVE Flatten(_)
Flatten(segs) == IF segs = <<>> THEN <<>> ELSE segs[1] \o Flatten(Tail(segs))
RawFlat == Flatten(segments)

\* the bounds present in a raw entry
Present(w) == (IF HasKey(w, "start") THEN {w.start} ELSE {})
              \cup (IF HasKey(w, "end") THEN {w.end} ELSE {})

\* each present start <= its present end, and each word's present bounds are >=
\* the present bounds of the words before it
WellFormedRaw ==
    /\ \A k \in 1..Len(RawFlat) :
          (HasKey(RawFlat[k], "start") /\ HasKey(RawFlat[k], "end"))
              => RawFlat[k].start <= RawFlat[k].end
    /\ \A j, k \in 1..Len(RawFlat) :
          j < k => \A a \in Present(RawFlat[j]), b \in Present(RawFlat[k]) : a <= b

\* C7: no emitted (word, start, end) has a missing start or end.
C7_NoNullBound ==
    pc = "aligned" =>
        \A k \in 1..Len(word_alignments) :
            word_alignments[k][2] # NoneT /\ word_alignments[k][3] # NoneT

\* an entry without start and without a previous word was dropped, and an entry
\* emitted after it had its missing end repaired
C7_Witness ==
    /\ pc = "aligned"
    /\ Len(RawFlat) = 3
    /\ ~HasKey(RawFlat[1], "start")
    /\ ~HasKey(RawFlat[2], "end") /\ HasKey(RawFlat[2], "start")
    /\ Len(word_alignments) = 2
    /\ word_alignments[1][1] = "w2" /\ word_alignments[1][3] = 30

\* C8: for a well-formed, time-ordered raw output the emitted words are
\* non-decreasing in start time.
C8_StartsNonDecreasing ==
    (pc = "aligned" /\ WellFormedRaw) =>
        \A k \in 1..(Len(word_alignments) - 1) :
            word_alignments[k][2] <= word_alignments[k + 1][2]

\* the k-th raw entry was emitted as (word, s, e) / was not emitted at all
EmittedAs(k, s, e) ==
    \E m \in 1..Len(word_alignments) : word_alignments[m] = <<WordNames[k], s, e>>
Dropped(k) ==
    \A m \in 1..Len(word_alignments) : word_alignments[m][1] # WordNames[k]

\* the end of the k-th raw entry: its own, or else the start of the entry that
\* follows it in the aligner's output
EndOrNextStart(k) ==
    IF HasKey(RawFlat[k], "end") THEN RawFlat[k].end
    ELSE IF k < Len(RawFlat) /\ HasKey(RawFlat[k + 1], "start")
         THEN RawFlat[k + 1].start
         ELSE NoneT

\* C19: a raw word entry with no start gets start = the previous word's end
\* (its own or repaired) + 0.01 s wherever the entry stands in the aligner's
\* output, the previous word being the one before it in that output even when
\* it lies in an earlier segment; the entry is dropped when no word precedes
\* it.  (Stated for entries whose own end is present and non-zero.)
C19_StartFromPreviousWord ==
    pc = "aligned" =>
        \A k \in 1..Len(RawFlat) :
            ~HasKey(RawFlat[k], "start") =>
                /\ k = 1 => Dropped(k)
                /\ ( /\ k > 1
                     /\ EndOrNextStart(k - 1) # NoneT
                     /\ HasKey(RawFlat[k], "end") /\ RawFlat[k].end # 0 )
                   => EmittedAs(k, EndOrNextStart(k - 1) + 10, RawFlat[k].end)

\* C20: a raw word entry with no end gets end = the next word's start, and is
\* dropped when no word follows it or the following word has no start either.
\* (The emission is stated for entries whose own start is present and
\* non-zero and whose next word's start is non-zero.)
C20_EndFromNextWord ==
    pc = "aligned" =>
        \A k \in 1..Len(RawFlat) :
            ~HasKey(RawFlat[k], "end") =>
                LET hasNext == k < Len(RawFlat) /\ HasKey(RawFlat[k + 1], "start") IN
                /\ ~hasNext => Dropped(k)
                /\ ( /\ hasNext
                     /\ HasKey(RawFlat[k], "start") /\ RawFlat[k].start # 0
                     /\ RawFlat[k + 1].start # 0 )
                   => EmittedAs(k, RawFlat[k].start, RawFlat[k + 1].start)

\* the entries of one segment / of all segments with the bounds the repair of
\* lines 65-80 gives them (NoneT where the repair finds nothing)
RepairedWords(words) ==
    [j \in 1..Len(words) |->
        <<words[j].word, DetermineStart(words, j), DetermineEnd(words, j)>>]
RECURSIVE RepairedSegments(_)
RepairedSegments(segs) ==
    IF segs = <<>> THEN <<>>
    ELSE RepairedWords(segs[1]) \o RepairedSegments(Tail(segs))

\* C21: an entry is dropped only if it still lacks a start or an end after the
\* repair: the output is, in the aligner's order, every entry that has both
\* bounds, its own or repaired, with its word and exactly those bounds,
\* whatever their values (any time >= 0).
C21_DroppedOnlyIfBoundMissing ==
    pc = "aligned" =>
        word_alignments =
            SelectSeq(RepairedSegments(segments),
                      LAMBDA e : e[2] # NoneT /\ e[3] # NoneT)

\* C22: for a raw output whose present bounds are well-formed and time-ordered
\* every emitted word has start <= end (so every caption built from the words
\* has a duration >= 0).
C22_StartNotAfterEnd ==
    (pc = "aligned" /\ WellFormedRaw) =>
        \A k \in 1..Len(word_alignments) :
            word_alignments[k][2] <= word_alignments[k][3]

----------------------------------------------------------------------------
(* SpecCaptions: video/captions.py create_caption_clips, calling chunk_words *)
(* and create_caption_clip.  A word is a sequence of characters; the text   *)
(* renderer behind check_text_wraps is an arbitrary deterministic function  *)
(* of (text, font size): an answer is chosen when a text is first rendered  *)
(* at a size and is the same whenever it is rendered again.                 *)

FONT_SIZE == 90
MIN_FONT_SIZE == 20
FONT_STEP == 15
START_OFFSET_MS == -100

\* str.upper() on the characters of the caption words
UpperChar(c) ==
    CASE c = "a" -> "A"
      [] c = "b" -> "B"
      [] OTHER -> c
upper(text) == [k \in 1..Len(text) |-> UpperChar(text[k])]

\* " ".join(words)
RECURSIVE join(_)
join(words) ==
    IF words = <<>> THEN <<>>
    ELSE IF Len(words) = 1 THEN words[1]
    ELSE words[1] \o <<" ">> \o join(Tail(words))

\* " ".join(words).upper() (lines 91 and 156)
CaptionText(words) == upper(join(words))

CaptionChunk(words, start_time, end_time, speaker) ==
    [words |-> words, start_time |-> start_time, end_time |-> end_time,
     speaker |-> speaker]

\* lines 56-58
WordSpeaker(start_time) ==
    IF speaker_timings # <<>>
    THEN get_speaker_at_time(speaker_timings, start_time)
    ELSE None

SpeakerChangedKnownOnly(words, chunk_speaker, word_speaker) ==
    words # <<>> /\ chunk_speaker # None /\ word_speaker # chunk_speaker
\* lines 61-66
SpeakerChanged(words, chunk_speaker, word_speaker) ==
    /\ words # <<>>
    /\ \/ (chunk_speaker # None /\ word_speaker # chunk_speaker)
       \/ (chunk_speaker = None /\ word_speaker # None)

\* lines 69-87: the loop state after the speaker check and the initialization
\* of an empty chunk; st holds chunks, words, start, end, speaker
AfterSpeakerCheck(st, start_time, end_time, word_speaker) ==
    LET changed == SpeakerChanged(st.words, st.speaker, word_speaker)
        chunks1 == IF changed /\ st.words # <<>>
                   THEN Append(st.chunks,
                               CaptionChunk(st.words, st.start, st.end, st.speaker))
                   ELSE st.chunks
        words1 == IF changed THEN <<>> ELSE st.words
    IN IF words1 = <<>>
       THEN [chunks |-> chunks1, words |-> words1, start |-> start_time,
             end |-> end_time, speaker |-> word_speaker]
       ELSE [chunks |-> chunks1, words |-> words1, start |-> st.start,
             end |-> st.end, speaker |-> st.speaker]

AfterWrapCheckDropping(st, word, start_time, end_time, word_speaker, wraps) ==
    IF wraps /\ st.words # <<>>
    THEN [chunks |-> Append(st.chunks,
                            CaptionChunk(st.words, st.start, st.end, st.speaker)),
          words |-> <<>>, start |-> start_time, end |-> end_time,
          speaker |-> word_speaker]
    ELSE [chunks |-> st.chunks, words |-> Append(st.words, word), start |-> st.start,
          end |-> end_time, speaker |-> st.speaker]
AfterWrapCheckNeverCloses(st, word, start_time, end_time, word_speaker, wraps) ==
    [chunks |-> st.chunks, words |-> Append(st.words, word), start |-> st.start,
     end |-> end_time, speaker |-> st.speaker]
AfterWrapCheckClosesWithWord(st, word, start_time, end_time, word_speaker, wraps) ==
    IF wraps /\ st.words # <<>>
    THEN [chunks |-> Append(st.chunks,
                            CaptionChunk(Append(st.words, word), st.start, end_time,
                                         st.speaker)),
          words |-> <<>>, start |-> start_time, end |-> end_time,
          speaker |-> word_speaker]
    ELSE [chunks |-> st.chunks, words |-> Append(st.words, word), start |-> st.start,
          end |-> end_time, speaker |-> st.speaker]
AfterWrapCheckStaleStart(st, word, start_time, end_time, word_speaker, wraps) ==
    IF wraps /\ st.words # <<>>
    THEN [chunks |-> Append(st.chunks,
                            CaptionChunk(st.words, st.start, st.end, st.speaker)),
          words |-> <<word>>, start |-> st.start, end |-> end_time,
          speaker |-> word_speaker]
    ELSE [chunks |-> st.chunks, words |-> Append(st.words, word), start |-> st.start,
          end |-> end_time, speaker |-> st.speaker]
AfterWrapCheckAlwaysCloses(st, word, start_time, end_time, word_speaker, wraps) ==
    IF st.words # <<>>
    THEN [chunks |-> Append(st.chunks,
                            CaptionChunk(st.words, st.start, st.end, st.speaker)),
          words |-> <<word>>, start |-> start_time, end |-> end_time,
          speaker |-> word_speaker]
    ELSE [chunks |-> st.chunks, words |-> Append(st.words, word), start |-> st.start,
          end |-> end_time, speaker |-> st.speaker]
\* lines 98-115: the loop state after the wrap check
AfterWrapCheck(st, word, start_time, end_time, word_speaker, wraps) ==
    IF wraps /\ st.words # <<>>
    THEN [chunks |-> Append(st.chunks,
                            CaptionChunk(st.words, st.start, st.end, st.speaker)),
          words |-> <<word>>, start |-> start_time, end |-> end_time,
          speaker |-> word_speaker]
    ELSE [chunks |-> st.chunks, words |-> Append(st.words, word), start |-> st.start,
          end |-> end_time, speaker |-> st.speaker]

\* the renderer's answers so far, extended by the answers ans to the keys asked
Asked(keys, ans) ==
    [key \in DOMAIN oracle \cup keys |->
        IF key \in DOMAIN oracle THEN oracle[key] ELSE ans[key]]
\* ans answers the keys like the renderer did whenever it was asked before
Consistent(keys, ans) ==
    \A key \in keys : key \in DOMAIN oracle => ans[key] = oracle[key]

\* The inputs of create_caption_clips
CaptionWords == {<<"a">>, <<"A">>, <<"b">>}
WordStarts == {100, 300, 500}
WordLengths == {100}
WordEntries ==
    {<<w, a, a + d>> : w \in CaptionWords, a \in WordStarts, d \in WordLengths}
SpeakerTimingCases ==
    { <<>>,
      <<<<"peter", 0, 300>>, <<"stewie", 500, 800>>>>,
      <<<<"stewie", 0, 500>>, <<"peter", 700, 1000>>>> }

\* chunk_words is entered with the word list wa
ChunkWordsEntry(wa) ==
    /\ pc = "chunk_loop"
    /\ word_alignments = wa
    /\ speaker_timings \in SpeakerTimingCases
    /\ oracle = [key \in {} |-> FALSE]
    /\ widx = 0 /\ chunks = <<>> /\ current_chunk_words = <<>>
    /\ chunk_start_time = NoneT /\ chunk_end_time = NoneT
    /\ current_chunk_speaker = None
    /\ text_clips_with_timing = <<>> /\ text_clips = <<>>
    /\ IdleTts /\ IdleLookup /\ IdleAlign /\ IdleExt

InitCaptions ==
    \E n \in 0..MaxCaptionWords : \E wa \in [1..n -> WordEntries] : ChunkWordsEntry(wa)

InitChunk ==
    \E n \in 0..MaxWords : \E wa \in [1..n -> WordEntries] : ChunkWordsEntry(wa)

\* one iteration of "for word, start_time, end_time in word_alignments"
\* (lines 54-115)
ChunkStep ==
    /\ pc = "chunk_loop"
    /\ widx < Len(word_alignments)
    /\ LET word == word_alignments[widx + 1][1]
           start_time == word_alignments[widx + 1][2]
           end_time == word_alignments[widx + 1][3]
           word_speaker == WordSpeaker(start_time)
           st == [chunks |-> chunks, words |-> current_chunk_words,
                  start |-> chunk_start_time, end |-> chunk_end_time,
                  speaker |-> current_chunk_speaker]
           st1 == AfterSpeakerCheck(st, start_time, end_time, word_speaker)
           test_words == st1.words \o <<word>>
           key == <<CaptionText(test_words), FONT_SIZE>>
       IN \E wraps \in BOOLEAN :
            /\ Consistent({key}, [k \in {key} |-> wraps])
            /\ oracle' = Asked({key}, [k \in {key} |-> wraps])
            /\ LET st2 == AfterWrapCheck(st1, word, start_time, end_time,
                                         word_speaker, wraps)
               IN /\ chunks' = st2.chunks
                  /\ current_chunk_words' = st2.words
                  /\ chunk_start_time' = st2.start
                  /\ chunk_end_time' = st2.end
                  /\ current_chunk_speaker' = st2.speaker
    /\ widx' = widx + 1
    /\ UNCHANGED <<pc, ttsVars, lookupVars, alignVars, fxVars, extVars, text_clips_with_timing, text_clips,
                   speaker_timings, word_alignments>>

\* lines 117-126: the remaining words become the last chunk; chunk_words returns
ChunkReturn ==
    /\ pc = "chunk_loop"
    /\ widx = Len(word_alignments)
    /\ chunks' = IF current_chunk_words # <<>>
                 THEN Append(chunks, CaptionChunk(current_chunk_words, chunk_start_time,
                                                  chunk_end_time, current_chunk_speaker))
                 ELSE chunks
    /\ pc' = "clip_loop"
    /\ UNCHANGED <<ttsVars, lookupVars, alignVars, fxVars, extVars, oracle, widx, current_chunk_words,
                   chunk_start_time, chunk_end_time, current_chunk_speaker,
                   text_clips_with_timing, text_clips, speaker_timings, word_alignments>>

\* the sizes "while adjusted_font_size >= 20" can try, from the default down
TriedSizes == {sz \in MIN_FONT_SIZE..FONT_SIZE : (FONT_SIZE - sz) % FONT_STEP = 0}

\* lines 160-167: the size at which the loop stops, wrapsAt[sz] being the
\* renderer's answer for the word at size sz
RECURSIVE ShrinkLoop(_, _)
ShrinkLoop(size, wrapsAt) ==
    IF size >= MIN_FONT_SIZE
    THEN IF ~wrapsAt[size] THEN size ELSE ShrinkLoop(size - FONT_STEP, wrapsAt)
    ELSE size

AdjustedFontSizeUnclamped(chunk, wrapsAt) ==
    IF Len(chunk.words) = 1 THEN ShrinkLoop(FONT_SIZE, wrapsAt) ELSE FONT_SIZE
\* lines 159-171
AdjustedFontSize(chunk, wrapsAt) ==
    IF Len(chunk.words) = 1
    THEN LET stopped == ShrinkLoop(FONT_SIZE, wrapsAt)
         IN IF stopped >= MIN_FONT_SIZE THEN stopped ELSE MIN_FONT_SIZE
    ELSE FONT_SIZE

ClipDurationToEnd(chunk) == chunk.end_time
ClipDurationPadded(chunk) == chunk.end_time - chunk.start_time + 100
\* "duration=chunk.end_time - chunk.start_time" (line 176)
ClipDuration(chunk) == chunk.end_time - chunk.start_time

\* TextClip(text=..., duration=..., font_size=...): a clip starts at 0
\* A text clip: position is where with_position has put it (<<x, y>>, the clip's
\* default before that), landing the length of the Resize animation that
\* add_landing_effect has attached (NoneT: the clip is never resized).
TextClip(text, duration, font_size) ==
    [text |-> text, font_size |-> font_size, duration |-> duration,
     start |-> 0, end |-> duration, position |-> <<0, 0>>, landing |-> NoneT]

\* clip.with_position(pos)
with_position(clip, pos) == [clip EXCEPT !.position = pos]

(* video/utils.py, video/effects.py *)

\* k * ease_out_cubic(num / den) = k * (1 - (1 - num/den)^3), truncated
ease_out_linear(k, num, den) == (k * num) \div den
ease_out_cubic(k, num, den) ==
    (k * (den * den * den - (den - num) * (den - num) * (den - num)))
        \div (den * den * den)

\* scale_fn of add_landing_effect, in thousandths: 750 before the clip starts,
\* 1000 after landing_dur, 750 + 250 * ease_out_cubic(t / landing_dur) between
scale_fn(landing_dur, t) ==
    IF t < 0 THEN 750
    ELSE IF t > landing_dur THEN 1000
    ELSE 750 + ease_out_cubic(250, t, landing_dur)

\* add_landing_effect: the position is fixed at (center, base_y) and the clip is
\* resized by scale_fn over its first landing_dur
add_landing_effect(clip, landing_dur, base_y) ==
    [with_position(clip, <<"center", base_y>>) EXCEPT !.landing = landing_dur]

\* the scale (thousandths) at which a clip is drawn t after it has appeared
ScaleAt(clip, t) ==
    IF clip.landing = NoneT THEN 1000 ELSE scale_fn(clip.landing, t)

\* the landing length create_caption_clip passes (line 187), in ms
CAPTION_LANDING_MS == 150

\* clip.with_start(t): the start is moved and, the duration being set, so is the end
with_start(clip, t) == [clip EXCEPT !.start = t, !.end = t + clip.duration]

\* one iteration of "for chunk in chunks" of create_caption_clips (lines 227-233),
\* with create_caption_clip (lines 153-188)
CaptionClipStep ==
    /\ pc = "clip_loop"
    /\ Len(text_clips_with_timing) < Len(chunks)
    /\ LET chunk == chunks[Len(text_clips_with_timing) + 1]
           chunk_text == CaptionText(chunk.words)
       IN \E fits \in TriedSizes \cup {0} :
            \* the renderer wraps the text above the size fits and not at it
            LET wrapsAt == [sz \in TriedSizes |-> sz > fits]
                size == AdjustedFontSize(chunk, wrapsAt)
                asked == IF Len(chunk.words) = 1
                         THEN {<<chunk_text, sz>> : sz \in {t \in TriedSizes :
                                  t >= ShrinkLoop(FONT_SIZE, wrapsAt)}}
                         ELSE {}
                ans == [key \in asked |-> wrapsAt[key[2]]]
            IN /\ Consistent(asked, ans)
               /\ oracle' = Asked(asked, ans)
               /\ text_clips_with_timing' =
                    Append(text_clips_with_timing,
                           <<add_landing_effect(
                                 with_position(
                                     TextClip(chunk_text, ClipDuration(chunk), size),
                                     <<"center", "center">>),
                                 CAPTION_LANDING_MS, "center"),
                             chunk.start_time>>)
    /\ UNCHANGED <<pc, ttsVars, lookupVars, alignVars, fxVars, extVars, widx, chunks, current_chunk_words,
                   chunk_start_time, chunk_end_time, current_chunk_speaker,
                   text_clips, speaker_timings, word_alignments>>

\* lines 236-241: the offset is applied and the clips are returned
CaptionClipsReturn ==
    /\ pc = "clip_loop"
    /\ Len(text_clips_with_timing) = Len(chunks)
    /\ text_clips' = [k \in 1..Len(text_clips_with_timing) |->
                        with_start(text_clips_with_timing[k][1],
                                   text_clips_with_timing[k][2] + START_OFFSET_MS)]
    /\ pc' = "clips_done"
    /\ UNCHANGED <<ttsVars, lookupVars, alignVars, fxVars, extVars, oracle, widx, chunks,
                   current_chunk_words, chunk_start_time, chunk_end_time,
                   current_chunk_speaker, text_clips_with_timing, speaker_timings,
                   word_alignments>>

NextCaptions ==
    \/ ChunkStep
    \/ ChunkReturn
    \/ CaptionClipStep
    \/ CaptionClipsReturn

SpecCaptions == InitCaptions /\ [][NextCaptions]_vars

\* SpecChunk: chunk_words alone, on longer word lists
NextChunk ==
    \/ ChunkStep
    \/ ChunkReturn

SpecChunk == InitChunk /\ [][NextChunk]_vars

\* chunk_words has returned
Chunked == pc \in {"clip_loop", "clips_done"}

----------------------------------------------------------------------------
(* Properties of chunk_words (SpecChunk) *)

RECURSIVE ConcatWords(_)
ConcatWords(cs) == IF cs = <<>> THEN <<>> ELSE cs[1].words \o ConcatWords(Tail(cs))

InputWords == [k \in 1..Len(word_alignments) |-> word_alignments[k][1]]

\* the number of words in the first c chunks
RECURSIVE WordsUpTo(_)
WordsUpTo(c) == IF c = 0 THEN 0 ELSE Len(chunks[c].words) + WordsUpTo(c - 1)

\* the chunk that holds the k-th word of the concatenated chunks
ChunkOf(k) == CHOOSE c \in 1..Len(chunks) : WordsUpTo(c - 1) < k /\ k <= WordsUpTo(c)

\* the speaker the k-th input word maps to
SpeakerOfWord(k) == get_speaker_at_time(speaker_timings, word_alignments[k][2])

\* C1: the chunks, concatenated in order, are the input words, each exactly once
\* and in the original order.
C1_Coverage == Chunked => ConcatWords(chunks) = InputWords

\* three words came out as a two-word chunk closed by a wrap and a one-word
\* chunk, the third word differing from the first two
C1_Witness ==
    /\ Chunked /\ Len(word_alignments) = 3 /\ Len(chunks) = 2
    /\ Len(chunks[1].words) = 2 /\ chunks[2].words = <<<<"b">>>>
    /\ chunks[1].words[1] # <<"b">>
    /\ chunks[1].speaker = chunks[2].speaker

\* C2: two consecutive words that map to different speakers (no speaker being a
\* value of its own) are never in the same chunk.
C2_SpeakerBoundary ==
    Chunked =>
        \A k \in 1..(Len(word_alignments) - 1) :
            SpeakerOfWord(k) # SpeakerOfWord(k + 1) => ChunkOf(k) # ChunkOf(k + 1)

\* nothing wraps, and the words go from no speaker to a speaker and back to none
C2_Witness ==
    /\ Chunked /\ Len(word_alignments) = 3
    /\ \A key \in DOMAIN oracle : ~oracle[key]
    /\ SpeakerOfWord(1) = None /\ SpeakerOfWord(2) = "stewie" /\ SpeakerOfWord(3) = None
    /\ Len(chunks) = 3

\* C3: for every emitted chunk of two or more words, check_text_wraps on its
\* space-joined, upper-cased text at the configured size returned False.
C3_WrapSafety ==
    Chunked =>
        \A c \in 1..Len(chunks) :
            Len(chunks[c].words) >= 2 =>
                /\ <<CaptionText(chunks[c].words), FONT_SIZE>> \in DOMAIN oracle
                /\ ~oracle[<<CaptionText(chunks[c].words), FONT_SIZE>>]

\* a chunk was closed by a wrap, and the word that wrapped then took another
\* word into its chunk
C3_Witness ==
    /\ Chunked /\ Len(word_alignments) = 3 /\ Len(chunks) = 2
    /\ Len(chunks[1].words) = 1 /\ Len(chunks[2].words) = 2
    /\ chunks[1].speaker = chunks[2].speaker
    /\ oracle[<<CaptionText(<<chunks[1].words[1], chunks[2].words[1]>>), FONT_SIZE>>]

\* C23: when appending a word to a non-empty current chunk would make the
\* upper-cased, space-joined text wrap, the chunk is emitted as it stood,
\* without that word, and the new current chunk holds that word alone; in
\* every other case (no wrap, or a word that wraps on its own) the word is
\* appended to the current chunk; no emitted chunk is empty.  (The current
\* chunk meant is the one left by the speaker check of the same iteration.)
C23_WrapClosesChunk ==
    /\ [](\A c \in 1..Len(chunks) : chunks[c].words # <<>>)
    /\ [][(pc = "chunk_loop" /\ widx' = widx + 1) =>
            LET word == word_alignments[widx + 1][1]
                changed == /\ current_chunk_words # <<>>
                           /\ WordSpeaker(word_alignments[widx + 1][2])
                                  # current_chunk_speaker
                stood == IF changed THEN <<>> ELSE current_chunk_words
                emitted == IF changed
                           THEN Append(chunks,
                                       CaptionChunk(current_chunk_words,
                                                    chunk_start_time, chunk_end_time,
                                                    current_chunk_speaker))
                           ELSE chunks
                wraps == oracle'[<<CaptionText(Append(stood, word)), 90>>]
            IN IF wraps /\ stood # <<>>
               THEN /\ chunks' = Append(emitted,
                                        CaptionChunk(stood, chunk_start_time,
                                                     chunk_end_time,
                                                     current_chunk_speaker))
                    /\ current_chunk_words' = <<word>>
               ELSE /\ chunks' = emitted
                    /\ current_chunk_words' = Append(stood, word)]_vars

\* the first word wrapped on its own and was kept; the second word wrapped
\* behind it, so the first was emitted alone and the second opened a new chunk
C23_Witness ==
    /\ Chunked /\ Len(word_alignments) = 2 /\ Len(chunks) = 2
    /\ chunks[1].speaker = chunks[2].speaker
    /\ oracle[<<CaptionText(chunks[1].words), 90>>]
    /\ oracle[<<CaptionText(chunks[1].words \o chunks[2].words), 90>>]

\* C24: every emitted chunk starts at its first word's start, ends at its last
\* word's end, and carries the speaker active at its first word's start (None
\* when no timing interval contains it), however the chunk was opened.
C24_ChunkBounds ==
    Chunked =>
        \A c \in 1..Len(chunks) :
            LET first == WordsUpTo(c - 1) + 1
                last == WordsUpTo(c)
            IN /\ chunks[c].start_time = word_alignments[first][2]
               /\ chunks[c].end_time = word_alignments[last][3]
               /\ chunks[c].speaker = SpeakerOfWord(first)

\* three chunks: the second opened by a change of speaker, the third by a wrap;
\* the first word maps to peter, the others to stewie
C24_Witness ==
    /\ Chunked /\ Len(word_alignments) = 3 /\ Len(chunks) = 3
    /\ chunks[1].speaker = "peter" /\ chunks[2].speaker = "stewie"
    /\ chunks[3].speaker = "stewie"
    /\ chunks[3].start_time = word_alignments[3][2]
    /\ oracle[<<CaptionText(chunks[2].words \o chunks[3].words), 90>>]

\* C25: a chunk is closed only for a change of speaker or a wrap: for every two
\* consecutive emitted chunks, the first word of the later one maps to another
\* speaker than the earlier chunk's, or the earlier chunk's words followed by
\* that word wrap at the configured size.
C25_ClosedOnlyForSpeakerOrWrap ==
    Chunked =>
        \A c \in 1..(Len(chunks) - 1) :
            LET first == WordsUpTo(c) + 1
                key == <<CaptionText(Append(chunks[c].words, word_alignments[first][1])),
                         90>>
            IN \/ SpeakerOfWord(first) # chunks[c].speaker
               \/ (key \in DOMAIN oracle /\ oracle[key])

\* three one-word chunks: the second opened by a wrap under the same speaker,
\* the third by a change of speaker
C25_Witness ==
    /\ Chunked /\ Len(word_alignments) = 3 /\ Len(chunks) = 3
    /\ chunks[1].speaker = chunks[2].speaker
    /\ chunks[2].speaker # chunks[3].speaker
    /\ oracle[<<CaptionText(chunks[1].words \o chunks[2].words), 90>>]

----------------------------------------------------------------------------
(* Properties of create_caption_clips (SpecCaptions) *)

\* C10 as stated: each caption is visible during
\* [chunk.start_time - 0.1 s, chunk.end_time).
C10_VisibleUntilChunkEnd ==
    pc = "clips_done" =>
        \A k \in 1..Len(text_clips) :
            /\ text_clips[k].start = chunks[k].start_time - 100
            /\ text_clips[k].end = chunks[k].end_time

\* C10 as amended: there is one caption per chunk, visible during
\* [chunk.start_time - 0.1 s, chunk.end_time - 0.1 s): the whole window is
\* moved by the offset, and lasts chunk.end_time - chunk.start_time.
C10_WindowShifted ==
    pc = "clips_done" =>
        /\ Len(text_clips) = Len(chunks)
        /\ \A k \in 1..Len(text_clips) :
              /\ text_clips[k].start = chunks[k].start_time - 100
              /\ text_clips[k].end = chunks[k].end_time - 100
              /\ text_clips[k].duration = chunks[k].end_time - chunks[k].start_time

\* a caption of two words, the first starting at 0.1 s and the second ending at
\* 0.6 s, is shown from 0.0 s to 0.5 s
C10_Witness ==
    /\ pc = "clips_done" /\ Len(text_clips) = 1
    /\ Len(chunks[1].words) = 2
    /\ chunks[1].start_time = 100 /\ chunks[1].end_time = 600
    /\ text_clips[1].start = 0 /\ text_clips[1].end = 500

\* the renderer was asked about the text at the size and said it wraps / fits
WrapsAt(text, sz) == <<text, sz>> \in DOMAIN oracle /\ oracle[<<text, sz>>]
FitsAt(text, sz) == <<text, sz>> \in DOMAIN oracle /\ ~oracle[<<text, sz>>]

\* C28: a single-word caption is rendered at the first of the sizes 90, 75, 60,
\* 45, 30 at which the word does not wrap (every larger one of them having
\* wrapped), and at the floor 20 if it wraps at all of them; the size is always
\* within [20, 90]; a caption of two or more words is rendered at 90.
C28_FontShrink ==
    \A k \in 1..Len(text_clips_with_timing) :
        LET clip == text_clips_with_timing[k][1]
            text == CaptionText(chunks[k].words)
            size == clip.font_size
        IN /\ clip.text = text
           /\ 20 <= size /\ size <= 90
           /\ Len(chunks[k].words) >= 2 => size = 90
           /\ Len(chunks[k].words) = 1 =>
                 /\ \A sz \in {90, 75, 60, 45, 30} : sz > size => WrapsAt(text, sz)
                 /\ \/ (size \in {90, 75, 60, 45, 30} /\ FitsAt(text, size))
                    \/ size = 20

\* two single-word captions: the first word wrapped at every tried size and is
\* rendered at 20, the second wrapped at 90 and 75 and is rendered at 60
C28_Witness ==
    /\ pc = "clips_done" /\ Len(text_clips) = 2
    /\ text_clips[1].font_size = 20 /\ WrapsAt(text_clips[1].text, 30)
    /\ text_clips[2].font_size = 60 /\ WrapsAt(text_clips[2].text, 75)

----------------------------------------------------------------------------
(* SpecRun: the two callers of tts and assemble_video, main.py main (from   *)
(* its call of tts on) and app.py generate_video.  assemble_video is seen   *)
(* from outside: the call binds its arguments, then returns or raises.      *)

\* the parameters of assemble_video that have no default
AssembleRequired ==
    {"dialogue_wav_path", "bg_folder", "out_path", "speaker_timings", "pngs_folder",
     "word_alignments", "font_path", "title"}

\* the keyword arguments of the call in main
MainKwargs ==
    {"dialogue_wav_path", "bg_folder", "out_path", "speaker_timings", "pngs_folder",
     "word_alignments", "font_path", "title"}

\* the keyword arguments of the call in generate_video
GenerateVideoKwargs ==
    {"dialogue_wav_path", "bg_folder", "out_path", "speaker_timings", "pngs_folder",
     "word_alignments"}

\* what assemble_video itself raises: no background MP4 (background.py 67), a
\* missing avatar image (overlays.py 38, 40)
AssembleErrors == {"RuntimeError", "FileNotFoundError"}

\* the ways a call assemble_video(**kwargs) can end: Python raises TypeError
\* before the body runs when a parameter without default gets no argument
AssembleOutcomes(kwargs) ==
    IF AssembleRequired \subseteq kwargs
    THEN {"returns"} \cup AssembleErrors
    ELSE {"TypeError"}

InitRun ==
    /\ pc = "tts_loop"
    /\ caller \in {"main", "app"}
    /\ \E n \in 0..MaxLines : script \in [1..n -> RawSpeakers]
    /\ audio_segments = <<>> /\ speakers = <<>>
    /\ timings = <<>> /\ combined = <<>> /\ current_time = 0 /\ i = 0
    /\ temp_wav_exists = FALSE
    /\ temp_audio_exists = FALSE /\ temp_dir_exists = FALSE /\ response = "none"
    /\ IdleLookup /\ IdleAlign /\ IdleCaptions /\ IdleRerun /\ IdleVideo /\ IdleFx
    /\ speaker_timings = <<>> /\ word_alignments = <<>>

\* main.py 99-110: tts has returned; the audio goes to a NamedTemporaryFile
\* that is kept on close (delete=False)
MainWriteTemp ==
    /\ pc = "tts_returned" /\ caller = "main"
    /\ temp_audio_exists' = TRUE
    /\ pc' = "main_call"
    /\ UNCHANGED <<ttsVars, lookupVars, alignVars, fxVars, rerunVars, videoVars, captionVars,
                   speaker_timings, word_alignments, caller, temp_dir_exists, response>>

\* main.py 113-125: the call of assemble_video, then os.unlink(temp_audio_path);
\* an exception of the call leaves main at once
MainAssemble ==
    /\ pc = "main_call"
    /\ \E outcome \in AssembleOutcomes(MainKwargs) :
         IF outcome = "returns"
         THEN /\ video_written' = TRUE
              /\ temp_audio_exists' = FALSE
              /\ pc' = "main_done"
              /\ UNCHANGED raised
         ELSE /\ raised' = outcome
              /\ pc' = "main_raised"
              /\ UNCHANGED <<video_written, temp_audio_exists>>
    /\ UNCHANGED <<ttsVars, lookupVars, alignVars, fxVars, rerunVars, captionVars,
                   speaker_timings, word_alignments, caller, temp_dir_exists, response,
                   peter_png_exists, stewie_png_exists, peter_img, stewie_img,
                   audio_duration, title_clip, overlay_clips, message>>

\* app.py 105-152: tts has returned; the audio and the two JSON files go to
\* /data/out, the TemporaryDirectory is created and the audio written into it
AppWriteOutputs ==
    /\ pc = "tts_returned" /\ caller = "app"
    /\ temp_dir_exists' = TRUE
    /\ pc' = "app_call"
    /\ UNCHANGED <<ttsVars, lookupVars, alignVars, fxVars, rerunVars, videoVars, captionVars,
                   speaker_timings, word_alignments, caller, temp_audio_exists, response>>

\* app.py 155-176: the call of assemble_video, then the Response built from the
\* video file; leaving the with block, by return or by exception, removes the
\* temporary directory
AppAssemble ==
    /\ pc = "app_call"
    /\ \E outcome \in AssembleOutcomes(GenerateVideoKwargs) :
         IF outcome = "returns"
         THEN /\ video_written' = TRUE
              /\ response' = "mp4"
              /\ pc' = "app_done"
              /\ UNCHANGED raised
         ELSE /\ raised' = outcome
              /\ pc' = "app_raised"
              /\ UNCHANGED <<video_written, response>>
    /\ temp_dir_exists' = FALSE
    /\ UNCHANGED <<ttsVars, lookupVars, alignVars, fxVars, rerunVars, captionVars,
                   speaker_timings, word_alignments, caller, temp_audio_exists,
                   peter_png_exists, stewie_png_exists, peter_img, stewie_img,
                   audio_duration, title_clip, overlay_clips, message>>

NextRun ==
    \/ TtsLine
    \/ TtsRaise
    \/ CombineEnter
    \/ CombineStep
    \/ CombineReturn
    \/ TtsAlignReturns
    \/ TtsAlignRaises
    \/ MainWriteTemp
    \/ MainAssemble
    \/ AppWriteOutputs
    \/ AppAssemble

SpecRun == InitRun /\ [][NextRun]_vars

\* tts is over, by return or by exception
TtsExited == pc \notin {"tts_loop", "combine", "tts_align"}

\* C13: every temporary audio file of a run, the WAV tts writes for alignment
\* and the WAV main writes for video assembly, is gone on every exit path of
\* the operation that created it, whether the step that follows
\* (align_with_whisperx, assemble_video) returns or raises.
C13_TempAudioDeleted ==
    /\ TtsExited => ~temp_wav_exists
    /\ pc \in {"main_done", "main_raised"} => ~temp_audio_exists

\* C17: a /generate-video request whose collaborators all succeed ends with
\* the MP4 response: the call of assemble_video supplies every argument the
\* function requires, the handler ends by exception only when a collaborator
\* failed, and the temporary directory is gone once the response is built.
C17_RequestEndsWithMp4 ==
    /\ pc = "app_call" => AssembleRequired \subseteq GenerateVideoKwargs
    /\ pc = "app_raised" => raised \in AssembleErrors
    /\ pc = "app_done" => (response = "mp4" /\ video_written /\ ~temp_dir_exists)

----------------------------------------------------------------------------
(* SpecVideo: video/assembler.py assemble_video, with create_title_clip     *)
(* (video/title.py), create_overlay_clips (video/overlays.py) and           *)
(* create_caption_clips.  Lengths are pixels.                               *)

MaxVideoWords == 1   \* entries of the word-alignment list given to assemble_video

VIDEO_WIDTH == 1080
VIDEO_HEIGHT == 1920
TITLE_FONT_SIZE == 70
TITLE_MAX_DURATION_MS == 15000

\* os.path.join(pngs_folder, ...) of lines 34-35
PeterPngPath == "pngs/Peter_Griffin.png"
StewiePngPath == "pngs/Stewie_Griffin.png"

\* create_title_clip: the text of format_title_text shown from 0 for
\* min(max_duration, audio_duration) at the top centre; no effect is attached
create_title_clip(duration) ==
    with_position(
        TextClip("formatted_title", Min(TITLE_MAX_DURATION_MS, duration),
                 TITLE_FONT_SIZE),
        <<"center", "top">>)

\* int(video_height * target_png_height_ratio), the ratio being 0.4
TargetPngHeight(video_height) == (video_height * 2) \div 5

\* int(img.w * (target_png_height / img.h)) of lines 45-46 and 52-53
ScaledWidth(img, target) == (img[1] * target) \div img[2]

OverlayPositionLeft(speaker, png_width, png_height, video_width, video_height) ==
    <<0, video_height - png_height>>
\* lines 66, 70 and 75: bottom-left for peter, bottom-right for stewie
OverlayPosition(speaker, png_width, png_height, video_width, video_height) ==
    <<IF speaker = "peter" THEN 0 ELSE video_width - png_width,
      video_height - png_height>>

\* lines 77-82: ImageClip(png_path, duration).with_effects([Resize]).with_start(
\* start_time).with_position((x_pos, y_pos))
ImageClip(png_path, duration, size, start_time, position) ==
    [png_path |-> png_path, duration |-> duration, size |-> size,
     start |-> start_time, end |-> start_time + duration, position |-> position]

\* the loop of lines 61-84 from entry k on; an entry of another speaker is skipped
RECURSIVE OverlayLoop(_, _, _, _, _, _)
OverlayLoop(st, k, peter_width, stewie_width, video_width, video_height) ==
    IF k > Len(st)
    THEN <<>>
    ELSE LET speaker == st[k][1]
             start_time == st[k][2]
             end_time == st[k][3]
             png_height == TargetPngHeight(video_height)
             rest == OverlayLoop(st, k + 1, peter_width, stewie_width,
                                 video_width, video_height)
         IN IF speaker \notin {"peter", "stewie"}
            THEN rest
            ELSE LET png_path == IF speaker = "peter" THEN PeterPngPath
                                 ELSE StewiePngPath
                     png_width == IF speaker = "peter" THEN peter_width
                                  ELSE stewie_width
                 IN <<ImageClip(png_path, end_time - start_time,
                                <<png_width, png_height>>, start_time,
                                OverlayPosition(speaker, png_width, png_height,
                                                video_width, video_height))>>
                    \o rest

create_overlay_clips_unchecked(st, video_width, video_height) ==
    [raised |-> FALSE,
     clips |-> OverlayLoop(st, 1,
                           ScaledWidth(peter_img, TargetPngHeight(video_height)),
                           ScaledWidth(stewie_img, TargetPngHeight(video_height)),
                           video_width, video_height)]
\* create_overlay_clips: FileNotFoundError when an image file is absent (lines
\* 37-40), else the clips of the loop
create_overlay_clips(st, video_width, video_height) ==
    IF ~peter_png_exists
    THEN [raised |-> TRUE, message |-> <<"Peter PNG not found at ", PeterPngPath>>]
    ELSE IF ~stewie_png_exists
    THEN [raised |-> TRUE, message |-> <<"Stewie PNG not found at ", StewiePngPath>>]
    ELSE [raised |-> FALSE,
          clips |-> OverlayLoop(st, 1,
                                ScaledWidth(peter_img, TargetPngHeight(video_height)),
                                ScaledWidth(stewie_img, TargetPngHeight(video_height)),
                                video_width, video_height)]

\* The timing lists assemble_video is given (labels as tts records them), the
\* audio ending where the last entry ends
VideoTimingCases == SpeakerTimingCases \cup { << <<"stewie", 0, 16000>> >> }
AudioDurationOf(st) == IF st = <<>> THEN 0 ELSE st[Len(st)][3]
ImageSizes == { <<600, 1200>>, <<500, 800>> }

InitVideo ==
    /\ pc = "asm_load"
    /\ speaker_timings \in VideoTimingCases
    /\ \E n \in 0..MaxVideoWords : word_alignments \in [1..n -> WordEntries]
    /\ peter_png_exists \in BOOLEAN /\ stewie_png_exists \in BOOLEAN
    /\ peter_img \in ImageSizes /\ stewie_img \in ImageSizes
    /\ audio_duration = 0 /\ title_clip = <<>> /\ overlay_clips = <<>>
    /\ raised = "none" /\ message = <<>> /\ video_written = FALSE
    /\ oracle = [key \in {} |-> FALSE]
    /\ widx = 0 /\ chunks = <<>> /\ current_chunk_words = <<>>
    /\ chunk_start_time = NoneT /\ chunk_end_time = NoneT
    /\ current_chunk_speaker = None
    /\ text_clips_with_timing = <<>> /\ text_clips = <<>>
    /\ IdleTts /\ IdleLookup /\ IdleAlign /\ IdleRerun /\ IdleRun /\ IdleFx

\* lines 43-52: the audio is loaded and a background is prepared;
\* prepare_background_clip raises RuntimeError when the folder has no MP4
AssembleLoad ==
    /\ pc = "asm_load"
    /\ \E has_background \in BOOLEAN :
         IF has_background
         THEN /\ audio_duration' = AudioDurationOf(speaker_timings)
              /\ pc' = "asm_title"
              /\ UNCHANGED raised
         ELSE /\ raised' = "RuntimeError"
              /\ pc' = "load_raised"
              /\ UNCHANGED audio_duration
    /\ UNCHANGED <<ttsVars, lookupVars, alignVars, fxVars, rerunVars, runVars, captionVars,
                   speaker_timings, word_alignments, peter_png_exists,
                   stewie_png_exists, peter_img, stewie_img, title_clip,
                   overlay_clips, message, video_written>>

\* lines 55-59
AssembleTitle ==
    /\ pc = "asm_title"
    /\ title_clip' = create_title_clip(audio_duration)
    /\ pc' = "asm_overlays"
    /\ UNCHANGED <<ttsVars, lookupVars, alignVars, fxVars, rerunVars, runVars, captionVars,
                   speaker_timings, word_alignments, peter_png_exists,
                   stewie_png_exists, peter_img, stewie_img, audio_duration,
                   overlay_clips, raised, message, video_written>>

\* lines 62-67; then create_caption_clips is entered (lines 70-74)
AssembleOverlays ==
    /\ pc = "asm_overlays"
    /\ LET r == create_overlay_clips(speaker_timings, VIDEO_WIDTH, VIDEO_HEIGHT) IN
       IF r.raised
       THEN /\ raised' = "FileNotFoundError"
            /\ message' = r.message
            /\ pc' = "overlays_raised"
            /\ UNCHANGED overlay_clips
       ELSE /\ overlay_clips' = r.clips
            /\ pc' = "chunk_loop"
            /\ UNCHANGED <<raised, message>>
    /\ UNCHANGED <<ttsVars, lookupVars, alignVars, fxVars, rerunVars, runVars, captionVars,
                   speaker_timings, word_alignments, peter_png_exists,
                   stewie_png_exists, peter_img, stewie_img, audio_duration,
                   title_clip, video_written>>

\* lines 77-108: the clips are composed, the file is written, the clips closed
AssembleWrite ==
    /\ pc = "clips_done"
    /\ video_written' = TRUE
    /\ pc' = "assembled"
    /\ UNCHANGED <<ttsVars, lookupVars, alignVars, fxVars, rerunVars, runVars, captionVars,
                   speaker_timings, word_alignments, peter_png_exists,
                   stewie_png_exists, peter_img, stewie_img, audio_duration,
                   title_clip, overlay_clips, raised, message>>

NextVideo ==
    \/ AssembleLoad
    \/ AssembleTitle
    \/ AssembleOverlays
    \/ ChunkStep
    \/ ChunkReturn
    \/ CaptionClipStep
    \/ CaptionClipsReturn
    \/ AssembleWrite

SpecVideo == InitVideo /\ [][NextVideo]_vars

\* create_overlay_clips has returned its clips
OverlaysMade == pc \in {"chunk_loop", "clip_loop", "clips_done", "assembled"}

\* C11: create_overlay_clips returns exactly one overlay per speaker-timing
\* entry, in entry order, each shown from its entry's start for end - start
\* (so over [start, end)), peter's at the left edge (x = 0), stewie's at the
\* right edge (x = video_width - overlay width), each with its bottom edge on
\* the bottom edge of the frame.
C11_OneOverlayPerEntry ==
    OverlaysMade =>
        /\ Len(overlay_clips) = Len(speaker_timings)
        /\ \A k \in 1..Len(overlay_clips) :
              LET c == overlay_clips[k]
                  e == speaker_timings[k]
              IN /\ c.start = e[2] /\ c.end = e[3] /\ c.duration = e[3] - e[2]
                 /\ e[1] = "peter" =>
                        (c.png_path = PeterPngPath /\ c.position[1] = 0)
                 /\ e[1] = "stewie" =>
                        (c.png_path = StewiePngPath
                         /\ c.position[1] + c.size[1] = 1080)
                 /\ e[1] \in {"peter", "stewie"}
                 /\ c.position[2] + c.size[2] = 1920

\* peter's line then stewie's: two overlays, the second one 480 wide at x = 600,
\* both 768 high at y = 1152
C11_Witness ==
    /\ pc = "assembled" /\ Len(overlay_clips) = 2
    /\ speaker_timings[1][1] = "peter" /\ speaker_timings[2][1] = "stewie"
    /\ overlay_clips[1].position = <<0, 1152>>
    /\ overlay_clips[2].position = <<600, 1152>> /\ overlay_clips[2].size = <<480, 768>>
    /\ overlay_clips[2].start = 500 /\ overlay_clips[2].duration = 300

\* the image files that are absent
MissingPngPaths ==
    (IF peter_png_exists THEN {} ELSE {PeterPngPath})
        \cup (IF stewie_png_exists THEN {} ELSE {StewiePngPath})

\* C14: when an avatar image file is absent, create_overlay_clips raises
\* FileNotFoundError with a message naming a missing path and returns no
\* overlay, whatever the timing entries are; assemble_video then stops: no
\* caption is built and no video is written.
C14_MissingAvatarAborts ==
    /\ (MissingPngPaths # {} /\ (OverlaysMade \/ pc = "overlays_raised")) =>
          /\ pc = "overlays_raised"
          /\ raised = "FileNotFoundError"
          /\ message[2] \in MissingPngPaths
          /\ overlay_clips = <<>>
          /\ chunks = <<>> /\ text_clips = <<>>
          /\ ~video_written
    /\ video_written => MissingPngPaths = {}

\* Stewie's image is absent and the timing list has entries of both speakers
C14_Witness ==
    /\ pc = "overlays_raised"
    /\ peter_png_exists /\ ~stewie_png_exists
    /\ Len(speaker_timings) = 2
    /\ message = <<"Stewie PNG not found at ", StewiePngPath>>

\* the clip appears at 75% scale and is at 100% when its landing window ends
Lands(clip) ==
    /\ clip.landing > 0
    /\ ScaleAt(clip, 0) = 750
    /\ ScaleAt(clip, clip.landing) = 1000

\* C12: in an assembled video every caption clip and the title clip carry the
\* landing animation: 75% scale at appearance, 100% at the end of the landing
\* window, at a fixed position.
C12_LandingOnCaptionsAndTitle ==
    pc = "assembled" =>
        /\ \A k \in 1..Len(text_clips) : Lands(text_clips[k])
        /\ Lands(title_clip)

----------------------------------------------------------------------------
(* SpecRerun: chunk_words called twice in a row on the same word alignments *)
(* and speaker timings, the renderer answering the second call as it        *)
(* answered the first.                                                      *)

FreshLocalsKeepChunks ==
    [chunks |-> chunks, words |-> <<>>, start |-> NoneT, end |-> NoneT,
     speaker |-> None]
\* lines 48-52: the locals every call of chunk_words starts from
FreshLocals ==
    [chunks |-> <<>>, words |-> <<>>, start |-> NoneT, end |-> NoneT,
     speaker |-> None]

\* the first call has returned; chunk_words is called again with the same
\* arguments
ChunkWordsAgain ==
    /\ pc = "clip_loop"
    /\ call = 1
    /\ first_chunks' = chunks
    /\ call' = 2
    /\ chunks' = FreshLocals.chunks
    /\ current_chunk_words' = FreshLocals.words
    /\ chunk_start_time' = FreshLocals.start
    /\ chunk_end_time' = FreshLocals.end
    /\ current_chunk_speaker' = FreshLocals.speaker
    /\ widx' = 0
    /\ pc' = "chunk_loop"
    /\ UNCHANGED <<ttsVars, lookupVars, alignVars, fxVars, videoVars, runVars, oracle,
                   text_clips_with_timing, text_clips, speaker_timings,
                   word_alignments>>

NextRerun ==
    \/ ChunkStep
    \/ ChunkReturn
    \/ ChunkWordsAgain

SpecRerun == InitCaptions /\ [][NextRerun]_vars

----------------------------------------------------------------------------
(* The timing list of tts as get_speaker_at_time and create_overlay_clips    *)
(* read it (SpecTts)                                                         *)

\* the entries of the timing list tts holds whose [start, end) contains t
TimingsContaining(t) ==
    {k \in 1..Len(timings) : timings[k][2] <= t /\ t < timings[k][3]}

\* the instants at which the timing list is probed: every start and end, and
\* the instants just inside and just outside each entry
ProbeTimes ==
    UNION {{timings[k][2], timings[k][2] + 1, timings[k][3] - 1, timings[k][3],
            timings[k][3] + 100} : k \in 1..Len(timings)}

\* C26: in a timing list produced by combine_to_wav_with_timings no two
\* entries' half-open intervals [start, end) share an instant, so at most one
\* entry contains a query time t, get_speaker_at_time's first match is the only
\* match, and the overlays made from the list are never visible together.
C26_AtMostOneEntryContains ==
    Combined =>
        /\ \A j, k \in 1..Len(timings) :
              j # k =>
                  ~( /\ timings[j][2] < timings[k][3] /\ timings[k][2] < timings[j][3]
                     /\ timings[j][2] < timings[j][3] /\ timings[k][2] < timings[k][3] )
        /\ \A t \in ProbeTimes :
              /\ Cardinality(TimingsContaining(t)) <= 1
              /\ \A k \in TimingsContaining(t) :
                    get_speaker_at_time(timings, t) = timings[k][1]
              /\ TimingsContaining(t) = {} => get_speaker_at_time(timings, t) = None
        /\ LET clips == OverlayLoop(timings, 1, 384, 480, 1080, 1920) IN
           \A j, k \in 1..Len(clips) :
              j < k => (clips[j].end <= clips[k].start \/ clips[k].end <= clips[j].start)

\* three lines were combined; the last instant of peter's first entry maps to
\* peter, its end (the start of the pause) to nobody, the start of the next
\* entry to stewie
C26_Witness ==
    /\ Combined /\ Len(timings) = 3
    /\ timings[1][1] = "peter" /\ timings[2][1] = "stewie"
    /\ timings[1][3] = 2000 /\ timings[2][2] = 2200
    /\ get_speaker_at_time(timings, 1999) = "peter"
    /\ get_speaker_at_time(timings, 2000) = None
    /\ get_speaker_at_time(timings, 2200) = "stewie"

----------------------------------------------------------------------------
(* SpecCaptionsOrdered: create_caption_clips on word-alignment lists in      *)
(* which every word has start <= end and starts no earlier than the word     *)
(* before it ends; a word may have no length and may touch its neighbour.   *)

OrderedWords == {<<"a">>, <<"b">>}
OrderedStarts == {100, 200, 500}
OrderedLengths == {0, 100}
OrderedWordEntries ==
    {<<w, s, s + l>> : w \in OrderedWords, s \in OrderedStarts, l \in OrderedLengths}

TimeOrdered(wa) ==
    /\ \A k \in 1..Len(wa) : wa[k][2] <= wa[k][3]
    /\ \A k \in 1..(Len(wa) - 1) : wa[k][3] <= wa[k + 1][2]

InitCaptionsOrdered ==
    \E n \in 0..MaxCaptionWords :
        \E wa \in [1..n -> OrderedWordEntries] :
            TimeOrdered(wa) /\ ChunkWordsEntry(wa)

SpecCaptionsOrdered == InitCaptionsOrdered /\ [][NextCaptions]_vars

\* C27: for a word-alignment list in which each word has start <= end and
\* starts no earlier than the previous word ends, no two captions returned by
\* create_caption_clips are on screen at the same instant: their windows
\* [start, end) do not intersect.
C27_CaptionWindowsDisjoint ==
    (pc = "clips_done" /\ TimeOrdered(word_alignments)) =>
        \A j, k \in 1..Len(text_clips) :
            j < k =>
                /\ text_clips[j].end <= text_clips[k].start
                /\ ~( /\ text_clips[j].start < text_clips[k].end
                      /\ text_clips[k].start < text_clips[j].end )

\* two captions, the second word starting the instant the first one ends: the
\* first caption leaves the screen at 0.1 s, where the second one appears
C27_Witness ==
    /\ pc = "clips_done" /\ Len(text_clips) = 2
    /\ word_alignments[1][3] = 200 /\ word_alignments[2][2] = 200
    /\ text_clips[1].start = 0 /\ text_clips[1].end = 100
    /\ text_clips[2].start = 100 /\ text_clips[2].end = 200

----------------------------------------------------------------------------
(* SpecLanding: video/effects.py add_landing_effect.  The effect is built   *)
(* for one landing_dur; the renderer then asks scale_fn for the scale of    *)
(* one frame after another, at any clip-local time and in any order.        *)

MaxLandingMs == 200

\* landing_dur: the default 0.25 s and the captions' 0.15 s lie between these
LandingDurs == {d \in 1..MaxLandingMs : d <= 3 \/ d % 50 = 0}

\* the t of a frame: from before the clip starts to after the landing is over
FrameTimes == (0 - MaxLandingMs \div 10)..(MaxLandingMs + MaxLandingMs \div 10)

InitLanding ==
    /\ pc = "effect"
    /\ effect_dur \in LandingDurs
    /\ frame_t = 0 /\ frame_scale = 0
    /\ IdleTts /\ IdleLookup /\ IdleAlign /\ IdleCaptions
    /\ IdleRerun /\ IdleVideo /\ IdleRun /\ IdleTitle
    /\ speaker_timings = <<>> /\ word_alignments = <<>>

\* vfx.Resize(lambda t: scale_fn(t)) drawing the frame at t
ScaleFrame ==
    /\ pc \in {"effect", "frame"}
    /\ \E t \in FrameTimes :
        /\ frame_t' = t
        /\ frame_scale' = scale_fn(effect_dur, t)
    /\ pc' = "frame"
    /\ UNCHANGED <<ttsVars, lookupVars, alignVars, extVars, captionVars, titleVars,
                   speaker_timings, word_alignments, effect_dur>>

NextLanding == ScaleFrame

SpecLanding == InitLanding /\ [][NextLanding]_vars

\* C30: the scale of a frame at clip-local time t with landing window d > 0 is
\* 0.75 for t < 0, 1.0 for t > d and 0.75 + 0.25 * (1 - (1 - t/d)^3) for
\* 0 <= t <= d (here in thousandths, rounded down); it is 0.75 at t = 0 and
\* 1.0 at t = d, it never leaves [0.75, 1.0], and a frame at a later time never
\* has a smaller scale than a frame at an earlier time.
C30_LandingScale ==
    /\ [](pc = "frame" =>
            LET d3 == effect_dur * effect_dur * effect_dur
                rest == effect_dur - frame_t
                eased == 250 * (d3 - rest * rest * rest)
            IN  /\ frame_t < 0 => frame_scale = 750
                /\ frame_t > effect_dur => frame_scale = 1000
                /\ (0 <= frame_t /\ frame_t <= effect_dur) =>
                       /\ (frame_scale - 750) * d3 <= eased
                       /\ eased < (frame_scale - 750 + 1) * d3
                /\ frame_t = 0 => frame_scale = 750
                /\ frame_t = effect_dur => frame_scale = 1000
                /\ 750 <= frame_scale /\ frame_scale <= 1000)
    /\ [][(pc = "frame" /\ frame_t <= frame_t') => frame_scale <= frame_scale']_vars

\* a frame inside the landing window, drawn between the two end scales
C30_Witness ==
    /\ pc = "frame"
    /\ 0 < frame_t /\ frame_t < effect_dur
    /\ 750 < frame_scale /\ frame_scale < 1000

----------------------------------------------------------------------------
(* SpecTitle: video/title.py format_title_text.  A text is a sequence of    *)
(* characters; the trial TextClip of each word is rendered by the text      *)
(* library, whose line breaking is outside the repository: a render of a    *)
(* text is the text with any of its spaces turned into line breaks and any  *)
(* of its words broken between two of its characters.                       *)

MaxTitleLen == 4

TitleChars == {"a", "B", " "}

IsSpace(c) == c \in {" ", "\n"}

\* str.split(): the maximal runs without whitespace, in order
RECURSIVE split(_)
split(text) ==
    IF text = <<>> THEN <<>>
    ELSE IF IsSpace(text[1]) THEN split(Tail(text))
    ELSE LET stops == {k \in 1..Len(text) : IsSpace(text[k])}
             stop == IF stops = {} THEN Len(text) + 1
                     ELSE CHOOSE k \in stops : \A m \in stops : k <= m
         IN  <<SubSeq(text, 1, stop - 1)>> \o split(SubSeq(text, stop, Len(text)))

\* str.endswith(suffix)
endswith(text, suffix) ==
    /\ Len(suffix) <= Len(text)
    /\ SubSeq(text, Len(text) - Len(suffix) + 1, Len(text)) = suffix

\* str.rstrip(" ")
RECURSIVE rstrip(_)
rstrip(text) ==
    IF text # <<>> /\ text[Len(text)] = " " THEN rstrip(SubSeq(text, 1, Len(text) - 1))
    ELSE text

\* str.strip(): whitespace removed at both ends
RECURSIVE strip(_)
strip(text) ==
    IF text # <<>> /\ IsSpace(text[Len(text)]) THEN strip(SubSeq(text, 1, Len(text) - 1))
    ELSE IF text # <<>> /\ IsSpace(text[1]) THEN strip(Tail(text))
    ELSE text

\* "\n" in text
HasLineBreak(text) == \E k \in 1..Len(text) : text[k] = "\n"

\* text.split("\n")[-1]
LastLine(text) ==
    LET breaks == {k \in 1..Len(text) : text[k] = "\n"}
        last == IF breaks = {} THEN 0
                ELSE CHOOSE k \in breaks : \A m \in breaks : m <= k
    IN  SubSeq(text, last + 1, Len(text))

\* the text of a caption-method TextClip whose lines were broken at the
\* positions of brk: a space there becomes a line break, a character followed
\* by another character of the same word is followed by a line break
RenderedChar(text, brk, k) ==
    IF text[k] = " " THEN (IF brk[k] THEN <<"\n">> ELSE <<" ">>)
    ELSE IF text[k] = "\n" THEN <<"\n">>
    ELSE IF brk[k] /\ k < Len(text) /\ ~IsSpace(text[k + 1]) THEN <<text[k], "\n">>
    ELSE <<text[k]>>

RECURSIVE RenderedFrom(_, _, _)
RenderedFrom(text, brk, k) ==
    IF k > Len(text) THEN <<>>
    ELSE RenderedChar(text, brk, k) \o RenderedFrom(text, brk, k + 1)

\* temp_clip.text for every way the library may break the lines of text
Renderings(text) ==
    {RenderedFrom(text, brk, 1) : brk \in [1..Len(text) -> BOOLEAN]}

\* lines 70
TestText(built, word) ==
    built \o (IF built # <<>> THEN <<" ">> ELSE <<>>) \o word

\* lines 99-101: the word goes to a new line
ForcedBreakText(built, word) ==
    LET stripped == IF built # <<>> /\ ~endswith(built, <<"\n">>)
                    THEN rstrip(built) ELSE built
    IN  stripped \o (IF ~endswith(stripped, <<"\n">>) THEN <<"\n">> ELSE <<>>) \o word

\* lines 88-104: the text built once the trial render of word is known
BuiltAfter(built, word, rendered_text) ==
    IF HasLineBreak(rendered_text)
    THEN IF endswith(strip(LastLine(rendered_text)), word)
         THEN TestText(built, word)
         ELSE ForcedBreakText(built, word)
    ELSE TestText(built, word)

InitTitle ==
    /\ pc = "format_title"
    /\ \E n \in 0..MaxTitleLen : title \in [1..n -> TitleChars]
    /\ title_words = <<>> /\ built_text = <<>> /\ rendered = <<>>
    /\ IdleTts /\ IdleLookup /\ IdleAlign /\ IdleCaptions
    /\ IdleRerun /\ IdleVideo /\ IdleRun /\ IdleLanding
    /\ speaker_timings = <<>> /\ word_alignments = <<>>

\* lines 65-66
FormatTitleSplit ==
    /\ pc = "format_title"
    /\ title_words' = split(upper(title))
    /\ built_text' = <<>>
    /\ pc' = "title_loop"
    /\ UNCHANGED <<ttsVars, lookupVars, alignVars, extVars, captionVars, landingVars,
                   speaker_timings, word_alignments, title, rendered>>

\* lines 68-104: one pass of the loop
FormatTitleWord ==
    /\ pc = "title_loop"
    /\ Len(rendered) < Len(title_words)
    /\ LET word == title_words[Len(rendered) + 1]
           test_text == TestText(built_text, word)
       IN  \E rendered_text \in Renderings(test_text) :
               /\ rendered' = Append(rendered, rendered_text)
               /\ built_text' = BuiltAfter(built_text, word, rendered_text)
    /\ UNCHANGED <<pc, ttsVars, lookupVars, alignVars, extVars, captionVars, landingVars,
                   speaker_timings, word_alignments, title, title_words>>

\* line 106
FormatTitleReturn ==
    /\ pc = "title_loop"
    /\ Len(rendered) = Len(title_words)
    /\ pc' = "title_formatted"
    /\ UNCHANGED <<ttsVars, lookupVars, alignVars, extVars, captionVars, landingVars,
                   speaker_timings, word_alignments, titleVars>>

NextTitle == FormatTitleSplit \/ FormatTitleWord \/ FormatTitleReturn

SpecTitle == InitTitle /\ [][NextTitle]_vars

\* the trial render of the k-th word has a line break and its last line does
\* not end with the whole word
SplitInRender(words, k) ==
    /\ HasLineBreak(rendered[k])
    /\ ~endswith(strip(LastLine(rendered[k])), words[k])

\* words[k..] with, before each word after the first of all, a line break when
\* its trial render split it and a space otherwise
RECURSIVE Glued(_, _)
Glued(words, k) ==
    IF k > Len(words) THEN <<>>
    ELSE (IF k = 1 THEN <<>>
          ELSE IF SplitInRender(words, k) THEN <<"\n">> ELSE <<" ">>)
         \o words[k] \o Glued(words, k + 1)

\* C29: the text format_title_text returns, split on whitespace, is the
\* upper-cased title's words in their order; nothing stands before the first
\* word, and before every later word stands one line break when the trial
\* render of the text built so far plus that word has a line break and its last
\* line does not end with the whole word, and one space otherwise.
C29_TitleWordsKept ==
    pc = "title_formatted" =>
        /\ split(built_text) = split(upper(title))
        /\ built_text = Glued(split(upper(title)), 1)

====
